---- MODULE Spec2Model ----
(***************************************************************************)
(* QSignalInspector: one QSignalSpy per signal of a target object, all     *)
(* signals connected to the single slot signalEmitted(), which finds the   *)
(* spy that caught the emission and appends a QSignalEmissionEvent to the  *)
(* inspector (a public QList<QSignalEmissionEvent>).                       *)
(*                                                                         *)
(* Method indices are 0-based as in QMetaObject; method(t, i) reads        *)
(* element i+1 of the 1-based TLA+ sequence.                               *)
(***************************************************************************)
EXTENDS Integers, Sequences, FiniteSets, TLC

\* ------------------------------------------------------------------ bounds
MaxEmissions == 2
MaxArg == 2
MaxCallerCalls == 1

ArgVals == 1..MaxArg

\* Two target objects; inspector i is constructed on object i.
Objects == {1, 2}
Inspectors == {1, 2}

\* ------------------------------------------------ introspection (QMetaObject)
\* The classes of the targets: Door derives from QObject, Lock from Door.
ClassNames == {"Door", "Lock"}

superClass(c) ==
    CASE c = "Lock" -> "Door"
      [] c = "Door" -> "QObject"
      [] OTHER -> ""

\* Methods a class declares itself, in declaration order (signals first for
\* QObject, as moc lays them out).  arity is the length of the parameter list.
ownMethods(c) ==
    CASE c = "QObject" ->
           << [name |-> "destroyed",           methodType |-> "Signal", arity |-> 1],
              [name |-> "destroyed",           methodType |-> "Signal", arity |-> 0],
              [name |-> "objectNameChanged",   methodType |-> "Signal", arity |-> 1],
              [name |-> "deleteLater",         methodType |-> "Slot",   arity |-> 0],
              [name |-> "_q_reregisterTimers", methodType |-> "Slot",   arity |-> 1] >>
      [] c = "Door" ->
           << [name |-> "opened", methodType |-> "Signal", arity |-> 0],
              [name |-> "closed", methodType |-> "Signal", arity |-> 1],
              [name |-> "reset",  methodType |-> "Slot",   arity |-> 0] >>
      [] c = "Lock" ->
           << [name |-> "locked", methodType |-> "Signal", arity |-> 0],
              [name |-> "locked", methodType |-> "Signal", arity |-> 1] >>
      [] OTHER -> << >>

RECURSIVE allMethods(_)
allMethods(c) ==
    IF c = "" THEN << >> ELSE allMethods(superClass(c)) \o ownMethods(c)

\* The meta-objects: for each class its whole method list and the index of
\* the first method the class declares itself.
MetaObjects ==
    [c \in ClassNames |-> [methods |-> allMethods(c),
                           offset |-> Len(allMethods(superClass(c)))]]

methodCount(c) == Len(MetaObjects[c].methods)

methodOffset(c) == MetaObjects[c].offset

method(c, index) == MetaObjects[c].methods[index + 1]

\* QMetaMethod::enclosingMetaObject() of method index of class c: the class
\* that declares the method, c itself or the ancestor whose range holds index.
RECURSIVE enclosingMetaObject(_, _)
enclosingMetaObject(c, index) ==
    IF c \notin ClassNames \/ index >= methodOffset(c)
    THEN c
    ELSE enclosingMetaObject(superClass(c), index)

\* The default-constructed QMetaMethod: no class, methodIndex() is -1.
InvalidMetaMethod == [metaObject |-> "", index |-> 0 - 1]

\* The QMetaMethod that metaObject->method(index) returns, as the pair of its
\* enclosingMetaObject() and methodIndex(); an index outside the methods of
\* the class yields the invalid QMetaMethod.
MetaMethod(c, index) ==
    IF index >= 0 /\ index < methodCount(c)
    THEN [metaObject |-> enclosingMetaObject(c, index), index |-> index]
    ELSE InvalidMetaMethod

\* Signals the model emits.  destroyed() / destroyed(QObject*) are emitted
\* only by the target's destructor, and the target outlives the inspector.
EmittableSignals(c) ==
    { index \in 0..(methodCount(c) - 1) :
         /\ method(c, index).methodType = "Signal"
         /\ method(c, index).name # "destroyed" }

ArgLists(n) == [1..n -> ArgVals]

\* ----------------------------------------------------------------- state
VARIABLES
    objType,                    \* object -> class of the target (metaObject())
    includeParentClassSignals,  \* inspector -> constructor argument
    m_signalSpies,              \* inspector -> (method index -> spy record list)
    connections,                \* inspector -> indices connected to signalEmitted(), in order
    log,                        \* inspector -> its QList<QSignalEmissionEvent>
    alive,                      \* inspector -> not yet destroyed
    pending,                    \* slot invocations in delivery
    emitted,                    \* object -> history of its emissions
    lastRun,                    \* inspector -> path taken by its last slot invocation
    clock,                      \* QDateTime::currentDateTime(), one tick per emission
    crashed,                    \* the process aborted
    backlog,                    \* inspector -> a signal fired while the firing next to
                                \* be logged was not the first pending in method order
    calls,                      \* deliveries left of the emission in progress
    run,                        \* position of the run of the slot in progress
    callerCalls                 \* calls of the list's mutators made by callers

vars == << objType, includeParentClassSignals, m_signalSpies, connections, log,
           alive, pending, emitted, lastRun, clock, crashed, backlog, calls,
           run, callerCalls >>

target(i) == i

\* QMap::insert
MapInsert(m, k, v) == [x \in (DOMAIN m) \cup {k} |-> IF x = k THEN v ELSE m[x]]

EmptyMap == << >>

\* No run of the slot is in progress.
Idle == [stage |-> "idle", signalIndex |-> 0, signalSpy |-> {}]

\* ---------------------------------------------------------- constructor
\* The loop of the constructor from methodIndex on: acc.spies is m_signalSpies
\* so far, acc.conns the connections made so far to signalEmitted().
RECURSIVE ConstructLoop(_, _, _)
ConstructLoop(metaObject, methodIndex, acc) ==
    IF methodIndex < methodCount(metaObject)
    THEN IF method(metaObject, methodIndex).methodType = "Signal"
         THEN ConstructLoop(metaObject, methodIndex + 1,
                  [spies |-> MapInsert(acc.spies, methodIndex, << >>),
                   conns |-> Append(acc.conns, methodIndex)])
         ELSE ConstructLoop(metaObject, methodIndex + 1, acc)
    ELSE acc

\* Variant: the constructor argument is ignored.
FirstMethodIndexIgnoresFlag(metaObject, includeParent) == 0

FirstMethodIndex(metaObject, includeParent) ==
    IF includeParent THEN 0 ELSE methodOffset(metaObject)

Construct(metaObject, includeParent) ==
    ConstructLoop(metaObject, FirstMethodIndex(metaObject, includeParent),
                  [spies |-> EmptyMap, conns |-> << >>])

Init ==
    /\ objType \in [Objects -> ClassNames]
    /\ includeParentClassSignals \in [Inspectors -> BOOLEAN]
    /\ m_signalSpies = [i \in Inspectors |->
           Construct(objType[target(i)], includeParentClassSignals[i]).spies]
    /\ connections = [i \in Inspectors |->
           Construct(objType[target(i)], includeParentClassSignals[i]).conns]
    /\ log = [i \in Inspectors |-> << >>]
    /\ alive = [i \in Inspectors |-> TRUE]
    /\ pending = << >>
    /\ emitted = [o \in Objects |-> << >>]
    /\ lastRun = [i \in Inspectors |-> [path |-> "none", fired |-> 0]]
    /\ clock = 0
    /\ crashed = FALSE
    /\ backlog = [i \in Inspectors |-> FALSE]
    /\ calls = << >>
    /\ run = Idle
    /\ callerCalls = 0

\* --------------------------------------------------------------- emission
Range(s) == { s[k] : k \in 1..Len(s) }

Min(S) == CHOOSE k \in S : \A j \in S : k <= j

\* The methods whose spy holds a record.
PendingSpies(spies) == { k \in DOMAIN spies : Len(spies[k]) > 0 }

\* A run of the slot of inspector i has started and has not returned.
RunningOn(i) ==
    /\ run.stage # "idle"
    /\ pending # << >>
    /\ Head(pending).receiver = i

\* Variant: a spy records the signal of any object, not only of its own.
SpyReceiversAnyObject(o, signalIndex) ==
    { i \in Inspectors : signalIndex \in DOMAIN m_signalSpies[i] }

\* The inspectors whose QSignalSpy for this signal is attached to object o:
\* each spy is bound to the constructor's object and to one signal.
SpyReceivers(o, signalIndex) ==
    { i \in Inspectors : /\ target(i) = o
                         /\ signalIndex \in DOMAIN m_signalSpies[i] }

\* The inspectors whose slot signalEmitted() is connected to this signal of o.
SlotReceivers(o, signalIndex) ==
    { i \in Inspectors : /\ target(i) = o
                         /\ signalIndex \in Range(connections[i]) }

\* QSignalSpy appends the argument list of the emission to its record.
SpyRecord(spies, signalIndex, args) ==
    [spies EXCEPT ![signalIndex] = Append(@, args)]

\* The slot invocations one emission causes.  sender is the set holding the
\* emitting object ({} is a null sender()); signalIndex is what the host
\* knows about the emission, which the slot does not read.
Invocations(o, signalIndex) ==
    IF SlotReceivers(o, signalIndex) = {}
    THEN << >>
    ELSE << [receiver |-> CHOOSE i \in SlotReceivers(o, signalIndex) : TRUE,
             sender |-> {o}, signalIndex |-> signalIndex] >>

\* backlog after object o fires the signal, seen being the emissions of o so
\* far with this one: a spy of the inspector records the firing while no run
\* of its slot is in progress, and the firing the next entry of the list has
\* to name is not the one of the first spy in method order that holds a
\* record, which is the one the next run stops at.
Backlogged(o, signalIndex, seen) ==
    [i \in Inspectors |->
        \/ backlog[i]
        \/ /\ i \in SpyReceivers(o, signalIndex)
           /\ ~RunningOn(i)
           /\ Len(log[i]) < Len(seen)
           /\ seen[Len(log[i]) + 1].index >
                 Min(PendingSpies(m_signalSpies[i]) \cup {signalIndex})]

\* Object o emits the signal with the given arguments, direct connections:
\* the spies (connected first) record, then the slot is invoked before
\* anything else happens.
Emit(o, signalIndex, args) ==
    /\ ~crashed
    /\ pending = << >>
    /\ clock < MaxEmissions
    /\ signalIndex \in EmittableSignals(objType[o])
    /\ args \in ArgLists(method(objType[o], signalIndex).arity)
    /\ emitted' = [emitted EXCEPT ![o] = Append(@, [index |-> signalIndex, args |-> args])]
    /\ clock' = clock + 1
    /\ m_signalSpies' = [i \in Inspectors |->
           IF i \in SpyReceivers(o, signalIndex)
           THEN SpyRecord(m_signalSpies[i], signalIndex, args)
           ELSE m_signalSpies[i]]
    /\ pending' = Invocations(o, signalIndex)
    /\ backlog' = Backlogged(o, signalIndex,
                             Append(emitted[o], [index |-> signalIndex, args |-> args]))
    /\ UNCHANGED << objType, includeParentClassSignals, connections, log, alive,
                    lastRun, crashed, calls, run, callerCalls >>

\* Object o emits the signal in a thread other than the inspector's: the
\* connection of line 90 (Qt::AutoConnection) is then queued.  The spies,
\* connected directly, record at once in the emitting thread, and the run of
\* the slot is posted behind the runs already waiting.  A run of the slot may
\* be in progress in the inspector's thread: the emission falls between two
\* of its steps.
EmitQueued(o, signalIndex, args) ==
    /\ ~crashed
    /\ calls = << >>
    /\ clock < MaxEmissions
    /\ signalIndex \in EmittableSignals(objType[o])
    /\ args \in ArgLists(method(objType[o], signalIndex).arity)
    /\ emitted' = [emitted EXCEPT ![o] = Append(@, [index |-> signalIndex, args |-> args])]
    /\ clock' = clock + 1
    /\ m_signalSpies' = [i \in Inspectors |->
           IF i \in SpyReceivers(o, signalIndex)
           THEN SpyRecord(m_signalSpies[i], signalIndex, args)
           ELSE m_signalSpies[i]]
    /\ pending' = pending \o Invocations(o, signalIndex)
    /\ backlog' = Backlogged(o, signalIndex,
                             Append(emitted[o], [index |-> signalIndex, args |-> args]))
    /\ UNCHANGED << objType, includeParentClassSignals, connections, log, alive,
                    lastRun, crashed, calls, run, callerCalls >>

\* The first signal at or after signalIndex, as a pointer: the spy the loop
\* of the slot examines next.
NextSignal(metaObject, signalIndex) ==
    LET after == { k \in signalIndex..(methodCount(metaObject) - 1) :
                      method(metaObject, k).methodType = "Signal" }
    IN  IF after = {} THEN {} ELSE {Min(after)}

\* The spy the run in progress touches in its next step: count() in the
\* loop, at(0) and clear() after it.
Accessed(metaObject) ==
    CASE run.stage = "loop" -> NextSignal(metaObject, run.signalIndex)
      [] run.stage \in {"read", "clear"} -> run.signalSpy
      [] OTHER -> {}

\* A spy appends in the emitting thread while the inspector's thread is in
\* count(), at(0) or clear() of the same spy, with no lock: a data race.
\* Besides the two orders of the accesses, which EmitQueued gives, the build
\* can abort, drop the record, or store a record with other arguments.
RaceOutcomes(arity, args) ==
    {[crashed |-> TRUE, recorded |-> << >>],
     [crashed |-> FALSE, recorded |-> << >>]} \cup
    { [crashed |-> FALSE, recorded |-> << g >>] : g \in ArgLists(arity) \ {args} }

EmitRacing(o, signalIndex, args) ==
    /\ ~crashed
    /\ calls = << >>
    /\ clock < MaxEmissions
    /\ signalIndex \in EmittableSignals(objType[o])
    /\ args \in ArgLists(method(objType[o], signalIndex).arity)
    /\ \E i \in SpyReceivers(o, signalIndex) :
          /\ RunningOn(i)
          /\ signalIndex \in Accessed(objType[o])
          /\ \E out \in RaceOutcomes(method(objType[o], signalIndex).arity, args) :
                /\ crashed' = out.crashed
                /\ m_signalSpies' = [m_signalSpies EXCEPT ![i][signalIndex] =
                                          @ \o out.recorded]
                /\ pending' = IF out.crashed
                              THEN pending
                              ELSE pending \o Invocations(o, signalIndex)
    /\ emitted' = [emitted EXCEPT ![o] = Append(@, [index |-> signalIndex, args |-> args])]
    /\ clock' = clock + 1
    /\ UNCHANGED << objType, includeParentClassSignals, connections, log, alive,
                    lastRun, backlog, calls, run, callerCalls >>

\* ------------------------------------------------------- signalEmitted()
\* The loop over the sender's methods from signalIndex on.  signalSpy is the
\* QSharedPointer as a set: {} is null, {k} points to the spy of method k.
RECURSIVE SpyLoop(_, _, _, _)
SpyLoop(metaObject, spies, signalIndex, signalSpy) ==
    IF signalIndex < methodCount(metaObject)
    THEN IF method(metaObject, signalIndex).methodType # "Signal"
         THEN SpyLoop(metaObject, spies, signalIndex + 1, signalSpy)
         ELSE IF signalIndex \notin DOMAIN spies
              THEN [path |-> "unexpected", signalIndex |-> signalIndex, signalSpy |-> {}]
              ELSE IF Len(spies[signalIndex]) > 0
                   THEN [path |-> "found", signalIndex |-> signalIndex,
                         signalSpy |-> {signalIndex}]
                   ELSE SpyLoop(metaObject, spies, signalIndex + 1, {signalIndex})
    ELSE [path |-> "end", signalIndex |-> signalIndex, signalSpy |-> signalSpy]

\* QSignalSpy::clear() through the pointer.
SpyClear(spies, signalSpy) ==
    [k \in DOMAIN spies |-> IF k \in signalSpy THEN << >> ELSE spies[k]]

\* Variant: the entry names the method after the one the loop stopped at.
EventOffByOne(metaObject, signalIndex, now, parameters) ==
    [signal |-> MetaMethod(metaObject, signalIndex + 1),
     timestamp |-> now,
     parameters |-> parameters]

Event(metaObject, signalIndex, now, parameters) ==
    [signal |-> MetaMethod(metaObject, signalIndex),
     timestamp |-> now,
     parameters |-> parameters]

\* Variant: the unexpected-signal path clears every spy before returning.
UnexpectedResultClears(spies, lg) ==
    [path |-> "unexpected", spies |-> [k \in DOMAIN spies |-> << >>],
     log |-> lg, crashed |-> FALSE]

\* Variant: the table is probed with operator[], which inserts a null entry
\* for the method probed (method 0 when ancestors are excluded).
UnexpectedResultInserts(spies, lg) ==
    [path |-> "unexpected",
     spies |-> [x \in (DOMAIN spies) \cup {0} |-> IF x \in DOMAIN spies THEN spies[x] ELSE << >>],
     log |-> lg, crashed |-> FALSE]

\* qWarning and return.
UnexpectedResult(spies, lg) ==
    [path |-> "unexpected", spies |-> spies, log |-> lg, crashed |-> FALSE]

\* Variant: the spy is not cleared after its record was read.
RecordedResultNoClear(metaObject, spies, lg, now, r) ==
    [path |-> "recorded",
     spies |-> spies,
     log |-> Append(lg, [signal |-> MetaMethod(metaObject, r.signalIndex),
                         timestamp |-> now,
                         parameters |-> spies[r.signalIndex][1]]),
     crashed |-> FALSE]

\* Variant: only the oldest record is taken out of the spy.
RecordedResultTakesFirst(metaObject, spies, lg, now, r) ==
    [path |-> "recorded",
     spies |-> [k \in DOMAIN spies |-> IF k \in r.signalSpy THEN Tail(spies[k]) ELSE spies[k]],
     log |-> Append(lg, [signal |-> MetaMethod(metaObject, r.signalIndex),
                         timestamp |-> now,
                         parameters |-> spies[r.signalIndex][1]]),
     crashed |-> FALSE]

\* Variant: the entry is put at the front of the list.
RecordedResultPrepends(metaObject, spies, lg, now, r) ==
    [path |-> "recorded",
     spies |-> [k \in DOMAIN spies |-> IF k \in r.signalSpy THEN << >> ELSE spies[k]],
     log |-> << [signal |-> MetaMethod(metaObject, r.signalIndex),
                 timestamp |-> now,
                 parameters |-> spies[r.signalIndex][1]] >> \o lg,
     crashed |-> FALSE]

\* Lines 124-130 after the loop left by break: r.signalSpy has a record.
RecordedResult(metaObject, spies, lg, now, r) ==
    [path |-> "recorded",
     spies |-> SpyClear(spies, r.signalSpy),
     log |-> Append(lg, Event(metaObject, r.signalIndex, now,
                              spies[r.signalIndex][1])),
     crashed |-> FALSE]

Aborted(spies, lg) ==
    [path |-> "fatal", spies |-> spies, log |-> lg, crashed |-> TRUE]

\* What at(0) of an empty record can yield when it does not abort.
GarbageParameters == ArgLists(0) \cup ArgLists(1)

\* Lines 124-130 after the loop ran off the end: at(0) reads an empty record
\* (or the pointer is null).  The build either aborts or goes on with
\* whatever it read; method(methodCount) is the invalid QMetaMethod.
UndefinedResults(metaObject, spies, lg, now, r) ==
    {Aborted(spies, lg)} \cup
    { [path |-> "undefined",
       spies |-> SpyClear(spies, r.signalSpy),
       log |-> Append(lg, Event(metaObject, r.signalIndex, now, g)),
       crashed |-> FALSE] : g \in GarbageParameters }

\* Variant: a null sender() is tolerated and the slot just returns.
NullSenderResultsReturns(spies, lg) ==
    {[path |-> "ignored", spies |-> spies, log |-> lg, crashed |-> FALSE]}

\* sender() is null: Q_ASSERT_X aborts; where the assertion is compiled out,
\* sender->metaObject() is a virtual call through a null pointer and the
\* process dies there, before the list or a spy is touched.
NullSenderResults(spies, lg) ==
    {Aborted(spies, lg),
     [path |-> "nullcall", spies |-> spies, log |-> lg, crashed |-> TRUE]}

\* Every outcome of one run of the slot on the inspector's members.
HandlerResults(sender, objTypes, spies, lg, now) ==
    IF sender = {}
    THEN NullSenderResults(spies, lg)
    ELSE LET metaObject == objTypes[CHOOSE o \in sender : TRUE]
             r == SpyLoop(metaObject, spies, 0, {})
         IN  CASE r.path = "unexpected" -> {UnexpectedResult(spies, lg)}
               [] r.path = "found" -> {RecordedResult(metaObject, spies, lg, now, r)}
               [] OTHER -> UndefinedResults(metaObject, spies, lg, now, r)

\* The host delivers the oldest pending invocation of signalEmitted().
SignalEmitted ==
    /\ ~crashed
    /\ pending # << >>
    /\ LET inv == Head(pending)
           i == inv.receiver
       IN  \E res \in HandlerResults(inv.sender, objType, m_signalSpies[i], log[i], clock) :
              /\ m_signalSpies' = [m_signalSpies EXCEPT ![i] = res.spies]
              /\ log' = [log EXCEPT ![i] = res.log]
              /\ crashed' = res.crashed
              /\ lastRun' = [lastRun EXCEPT ![i] =
                                [path |-> res.path, fired |-> inv.signalIndex]]
    /\ pending' = Tail(pending)
    /\ UNCHANGED << objType, includeParentClassSignals, connections, alive,
                    emitted, clock, backlog, calls, run, callerCalls >>

\* ------------------------------------------- signalEmitted(), step by step
\* When emissions come from another thread, a run of the slot is not one
\* step: the spies can change between two of its accesses to them.  The run
\* is cut at those accesses; what lies between two of them touches only the
\* run's locals and the list, which the emitting thread does not touch.

\* Line 107.
ScanStartAtSender(fired) == fired

ScanStart(fired) == 0

\* The loop up to and including its next count(): methods that are not
\* signals are passed over, then the spy of one signal is examined; when no
\* signal is left after it, the loop runs off the end without another count().
RECURSIVE LoopStep(_, _, _, _)
LoopStep(metaObject, spies, signalIndex, signalSpy) ==
    IF signalIndex < methodCount(metaObject)
    THEN IF method(metaObject, signalIndex).methodType # "Signal"
         THEN LoopStep(metaObject, spies, signalIndex + 1, signalSpy)
         ELSE IF signalIndex \notin DOMAIN spies
              THEN [path |-> "unexpected", signalIndex |-> signalIndex, signalSpy |-> {}]
              ELSE IF Len(spies[signalIndex]) > 0
                   THEN [path |-> "found", signalIndex |-> signalIndex,
                         signalSpy |-> {signalIndex}]
                   ELSE IF NextSignal(metaObject, signalIndex + 1) = {}
                        THEN [path |-> "end", signalIndex |-> methodCount(metaObject),
                              signalSpy |-> {signalIndex}]
                        ELSE [path |-> "next", signalIndex |-> signalIndex + 1,
                              signalSpy |-> {signalIndex}]
    ELSE [path |-> "end", signalIndex |-> signalIndex, signalSpy |-> signalSpy]

\* Lines 124-129 with the loop's locals r.  After break the spy holds a
\* record.  After the loop ran off the end the spy pointed to is the last
\* one; when a record has come into it since its count(), at(0) reads that
\* record and the entry names method(methodCount), the invalid QMetaMethod;
\* otherwise at(0) reads an empty record.
ReadResults(metaObject, spies, lg, now, r) ==
    IF r.signalSpy = {} \/ (\A k \in r.signalSpy : Len(spies[k]) = 0)
    THEN UndefinedResults(metaObject, spies, lg, now, r)
    ELSE IF r.signalIndex \in r.signalSpy
         THEN {RecordedResult(metaObject, spies, lg, now, r)}
         ELSE { [path |-> "overrun",
                 spies |-> SpyClear(spies, r.signalSpy),
                 log |-> Append(lg, Event(metaObject, r.signalIndex, now,
                                          spies[CHOOSE k \in r.signalSpy : TRUE][1])),
                 crashed |-> FALSE] }

\* The host starts the oldest posted run: lines 97-107.
SlotEnter ==
    /\ ~crashed
    /\ pending # << >>
    /\ run.stage = "idle"
    /\ Head(pending).sender # {}
    /\ run' = [stage |-> "loop",
               signalIndex |-> ScanStart(Head(pending).signalIndex),
               signalSpy |-> {}]
    /\ UNCHANGED << objType, includeParentClassSignals, m_signalSpies, connections,
                    log, alive, pending, emitted, lastRun, clock, crashed, backlog,
                    calls, callerCalls >>

\* Lines 109-122, one count() at a time; the unexpected-signal path returns.
SlotLoop ==
    /\ ~crashed
    /\ pending # << >>
    /\ run.stage = "loop"
    /\ LET inv == Head(pending)
           i == inv.receiver
           r == LoopStep(objType[CHOOSE o \in inv.sender : TRUE], m_signalSpies[i],
                         run.signalIndex, run.signalSpy)
       IN  IF r.path = "unexpected"
           THEN LET res == UnexpectedResult(m_signalSpies[i], log[i])
                IN  /\ m_signalSpies' = [m_signalSpies EXCEPT ![i] = res.spies]
                    /\ log' = [log EXCEPT ![i] = res.log]
                    /\ lastRun' = [lastRun EXCEPT ![i] =
                                      [path |-> res.path, fired |-> inv.signalIndex]]
                    /\ pending' = Tail(pending)
                    /\ run' = Idle
           ELSE /\ run' = [stage |-> IF r.path = "next" THEN "loop" ELSE "read",
                           signalIndex |-> r.signalIndex,
                           signalSpy |-> r.signalSpy]
                /\ UNCHANGED << m_signalSpies, log, lastRun, pending >>
    /\ UNCHANGED << objType, includeParentClassSignals, connections, alive,
                    emitted, clock, crashed, backlog, calls, callerCalls >>

\* Lines 124-129: at(0), the entry, append().
SlotRead ==
    /\ ~crashed
    /\ pending # << >>
    /\ run.stage = "read"
    /\ LET inv == Head(pending)
           i == inv.receiver
       IN  \E res \in ReadResults(objType[CHOOSE o \in inv.sender : TRUE],
                                  m_signalSpies[i], log[i], clock,
                                  [signalIndex |-> run.signalIndex,
                                   signalSpy |-> run.signalSpy]) :
              /\ log' = [log EXCEPT ![i] = res.log]
              /\ crashed' = res.crashed
              /\ lastRun' = [lastRun EXCEPT ![i] =
                                [path |-> res.path, fired |-> inv.signalIndex]]
    /\ run' = [run EXCEPT !.stage = "clear"]
    /\ UNCHANGED << objType, includeParentClassSignals, m_signalSpies, connections,
                    alive, pending, emitted, clock, backlog, calls, callerCalls >>

\* Line 130: clear(), and the run returns.
SlotClear ==
    /\ ~crashed
    /\ pending # << >>
    /\ run.stage = "clear"
    /\ m_signalSpies' = [m_signalSpies EXCEPT ![Head(pending).receiver] =
                              SpyClear(@, run.signalSpy)]
    /\ pending' = Tail(pending)
    /\ run' = Idle
    /\ UNCHANGED << objType, includeParentClassSignals, connections, log, alive,
                    emitted, lastRun, clock, crashed, backlog, calls, callerCalls >>

\* ------------------------------------------------------------ destruction
\* Variant: the connections to the slot outlive the inspector.
DestroyKeepsConnections(i) ==
    /\ ~crashed
    /\ pending = << >>
    /\ alive[i]
    /\ alive' = [alive EXCEPT ![i] = FALSE]
    /\ m_signalSpies' = [m_signalSpies EXCEPT ![i] = << >>]
    /\ log' = [log EXCEPT ![i] = << >>]
    /\ UNCHANGED << objType, includeParentClassSignals, connections, pending,
                    emitted, lastRun, clock, crashed, backlog, calls,
                    run, callerCalls >>

\* The implicit destructor: the member m_signalSpies releases the spies, the
\* QList base releases the entries, the QObject base removes every connection
\* to the inspector.  A destroyed inspector has no list; its log is empty.
Destroy(i) ==
    /\ ~crashed
    /\ pending = << >>
    /\ alive[i]
    /\ alive' = [alive EXCEPT ![i] = FALSE]
    /\ m_signalSpies' = [m_signalSpies EXCEPT ![i] = EmptyMap]
    /\ log' = [log EXCEPT ![i] = << >>]
    /\ connections' = [connections EXCEPT ![i] = << >>]
    /\ UNCHANGED << objType, includeParentClassSignals, pending, emitted,
                    lastRun, clock, crashed, backlog, calls, run, callerCalls >>

\* ------------------------------------------------- the public QList base
\* QList<QSignalEmissionEvent> is a public base class, so its mutators are
\* callable on the inspector.  A caller calls between two deliveries.
CallerMay(i) ==
    /\ ~crashed
    /\ pending = << >>
    /\ alive[i]
    /\ callerCalls < MaxCallerCalls

\* The entries a caller passes in: a QSignalEmissionEvent it made itself,
\* with the invalid QMetaMethod (method index -1), the null QDateTime (-1)
\* and parameters of its choice.
CallerEvents ==
    { [signal |-> InvalidMetaMethod,
       timestamp |-> 0 - 1,
       parameters |-> a] : a \in ArgLists(1) }

\* The lists a caller assigns.
CallerLists == {<< >>} \cup { << e >> : e \in CallerEvents }

RemoveAt(s, k) == [j \in 1..(Len(s) - 1) |-> IF j < k THEN s[j] ELSE s[j + 1]]

InsertAt(s, k, e) ==
    [j \in 1..(Len(s) + 1) |-> IF j < k THEN s[j] ELSE IF j = k THEN e ELSE s[j - 1]]

\* log of inspector i becomes lst by a caller's call.
CallerSets(i, lst) ==
    /\ CallerMay(i)
    /\ log' = [log EXCEPT ![i] = lst]
    /\ callerCalls' = callerCalls + 1
    /\ UNCHANGED << objType, includeParentClassSignals, m_signalSpies, connections,
                    alive, pending, emitted, lastRun, clock, crashed, backlog, calls,
                    run >>

\* clear()
ListClear(i) ==
    /\ log[i] # << >>
    /\ CallerSets(i, << >>)

\* removeAt(); removeFirst(), removeLast(), takeAt(), takeFirst(),
\* takeLast(), erase() and pop_front()/pop_back() remove one entry likewise.
ListRemoveAt(i, k) ==
    /\ k \in 1..Len(log[i])
    /\ CallerSets(i, RemoveAt(log[i], k))

\* append(), push_back(), operator<<(), operator+=()
ListAppend(i, e) == CallerSets(i, Append(log[i], e))

\* prepend(), push_front()
ListPrepend(i, e) == CallerSets(i, << e >> \o log[i])

\* insert()
ListInsert(i, k, e) ==
    /\ k \in 1..(Len(log[i]) + 1)
    /\ CallerSets(i, InsertAt(log[i], k, e))

\* replace(), and assignment through operator[](), first(), last()
ListReplace(i, k, e) ==
    /\ k \in 1..Len(log[i])
    /\ CallerSets(i, [log[i] EXCEPT ![k] = e])

\* move()
ListMove(i, from, to) ==
    /\ from \in 1..Len(log[i])
    /\ to \in 1..Len(log[i])
    /\ from # to
    /\ CallerSets(i, InsertAt(RemoveAt(log[i], from), to, log[i][from]))

\* swapItemsAt() (swap() of two positions in older Qt)
ListSwap(i, j, k) ==
    /\ j \in 1..Len(log[i])
    /\ k \in 1..Len(log[i])
    /\ j < k
    /\ CallerSets(i, [log[i] EXCEPT ![j] = log[i][k], ![k] = log[i][j]])

\* operator=() from another list, swap() with another list
ListAssign(i, lst) ==
    /\ lst # log[i]
    /\ CallerSets(i, lst)

\* ------------------------------------------------ slot called without signal
\* The slot is run by name (QMetaObject::invokeMethod) and not by a signal:
\* sender() is null and senderSignalIndex() is -1.
InvokeDirect(i) ==
    /\ ~crashed
    /\ pending = << >>
    /\ calls = << >>
    /\ alive[i]
    /\ pending' = << [receiver |-> i, sender |-> {}, signalIndex |-> 0 - 1] >>
    /\ UNCHANGED << objType, includeParentClassSignals, m_signalSpies, connections,
                    log, alive, emitted, lastRun, clock, crashed, backlog, calls,
                    run, callerCalls >>

\* ---------------------------------------------------------- specifications
EmitAny ==
    \E o \in Objects : \E signalIndex \in EmittableSignals(objType[o]) :
        \E args \in ArgLists(method(objType[o], signalIndex).arity) :
            Emit(o, signalIndex, args)

DestroyAny == \E i \in Inspectors : Destroy(i)

\* Synchronous dispatch on one thread; callers only read the list.
Next == EmitAny \/ SignalEmitted \/ DestroyAny

Spec == Init /\ [][Next]_vars

\* The positions of a list a caller can name.
Positions == 1..(MaxEmissions + MaxCallerCalls + 1)

ListClearAny == \E i \in Inspectors : ListClear(i)

ListRemoveAtAny == \E i \in Inspectors : \E k \in Positions : ListRemoveAt(i, k)

ListAppendAny == \E i \in Inspectors : \E e \in CallerEvents : ListAppend(i, e)

ListPrependAny == \E i \in Inspectors : \E e \in CallerEvents : ListPrepend(i, e)

ListInsertAny ==
    \E i \in Inspectors : \E k \in Positions : \E e \in CallerEvents : ListInsert(i, k, e)

ListReplaceAny ==
    \E i \in Inspectors : \E k \in Positions : \E e \in CallerEvents : ListReplace(i, k, e)

ListMoveAny ==
    \E i \in Inspectors : \E from \in Positions : \E to \in Positions : ListMove(i, from, to)

ListSwapAny ==
    \E i \in Inspectors : \E j \in Positions : \E k \in Positions : ListSwap(i, j, k)

ListAssignAny == \E i \in Inspectors : \E lst \in CallerLists : ListAssign(i, lst)

\* The same, with callers using the list's mutators as well.
NextCaller ==
    \/ Next
    \/ ListClearAny
    \/ ListRemoveAtAny
    \/ ListAppendAny
    \/ ListPrependAny
    \/ ListInsertAny
    \/ ListReplaceAny
    \/ ListMoveAny
    \/ ListSwapAny
    \/ ListAssignAny

SpecCaller == Init /\ [][NextCaller]_vars

\* ================================================================ claims
Last(s) == s[Len(s)]

IsPrefix(s, t) == /\ Len(s) <= Len(t)
                  /\ \A k \in 1..Len(s) : s[k] = t[k]

\* A log as the sequence of (signal index, arguments) pairs it records.
Shown(lg) ==
    [k \in 1..Len(lg) |-> [index |-> lg[k].signal.index, args |-> lg[k].parameters]]

\* The methods of the enumerated range that are signals.
SignalsInRange(c, includeParent) ==
    { m \in (IF includeParent THEN 0 ELSE methodOffset(c))..(methodCount(c) - 1) :
         method(c, m).methodType = "Signal" }

Quiet(i) == alive[i] /\ pending = << >>

\* A step that is one whole run of the slot (direct connection).
SlotRuns == pending # << >> /\ pending' = Tail(pending)

\* C1: for either inclusion policy, once the emissions have been delivered
\* synchronously, the log of a live inspector is the sequence of the emissions
\* of the signals it discovered: as many entries, same order, same arguments.
C1_LogIsEmissionSequence ==
    \A i \in Inspectors :
        Quiet(i) =>
            Shown(log[i]) =
                SelectSeq(emitted[target(i)],
                          LAMBDA e : e.index \in DOMAIN m_signalSpies[i])

\* C2: with includeParentClassSignals = false, the log holds every emission of
\* a signal declared by the target's own class and no emission of a signal
\* declared by an ancestor class.
C2_OwnSignalsRecorded ==
    \A i \in Inspectors :
        (Quiet(i) /\ ~includeParentClassSignals[i]) =>
            Shown(log[i]) =
                SelectSeq(emitted[target(i)],
                          LAMBDA e : e.index >= methodOffset(objType[target(i)]))

\* C3: the keys of m_signalSpies are exactly the signals of the enumerated
\* range (own signals only, or own and ancestor signals), each connected to the
\* slot exactly once, and no other method has a spy or a connection.
C3_ObserverTable ==
    \A i \in Inspectors :
        alive[i] =>
            LET sigs == SignalsInRange(objType[target(i)], includeParentClassSignals[i])
            IN  /\ DOMAIN m_signalSpies[i] = sigs
                /\ Range(connections[i]) = sigs
                /\ Len(connections[i]) = Cardinality(sigs)

C3_Witness ==
    \E i \in Inspectors : \E j \in Inspectors :
        /\ alive[i] /\ alive[j]
        /\ objType[target(i)] = "Lock" /\ ~includeParentClassSignals[i]
        /\ Cardinality(DOMAIN m_signalSpies[i]) = 2
        /\ objType[target(j)] = "Lock" /\ includeParentClassSignals[j]
        /\ Cardinality(DOMAIN m_signalSpies[j]) = 7
        /\ clock = MaxEmissions

\* C4: under synchronous dispatch every entry appended to a log names the
\* signal whose emission caused that run of the slot.
C4_Attribution ==
    [][\A i \in Inspectors :
          Len(log'[i]) > Len(log[i]) =>
             /\ pending # << >>
             /\ Head(pending).receiver = i
             /\ Last(log'[i]).signal.index = Head(pending).signalIndex]_vars

C4_Witness ==
    \E i \in Inspectors :
        /\ Len(log[i]) = 2
        /\ log[i][1].signal.index # log[i][2].signal.index
        /\ Shown(log[i]) = emitted[target(i)]

\* C5: when a run of the slot appends an entry, the spy of that signal is
\* empty when the slot returns, the entry is a new last entry carrying the
\* arguments of the emission just made, and the earlier entries are unchanged.
C5_Drained ==
    [][\A i \in Inspectors :
          Len(log'[i]) > Len(log[i]) =>
             LET e == Last(log'[i])
             IN  /\ e.signal.index \in DOMAIN m_signalSpies'[i]
                 /\ Len(m_signalSpies'[i][e.signal.index]) = 0
                 /\ log'[i] = Append(log[i], e)
                 /\ e.signal.index = Last(emitted[target(i)]).index
                 /\ e.parameters = Last(emitted[target(i)]).args]_vars

C5_Witness ==
    \E i \in Inspectors :
        /\ Len(log[i]) = 2
        /\ log[i][1].signal.index = log[i][2].signal.index
        /\ log[i][1].parameters # log[i][2].parameters
        /\ Len(m_signalSpies[i][log[i][2].signal.index]) = 0

\* C6: an inspector's log holds only emissions of its own target (every entry
\* names a signal of the target's class, as the QMetaMethod of the class that
\* declares it, with the arguments of an emission of the target), and a step
\* that emits on, or delivers for, one object changes neither the log nor the
\* spies of an inspector of another object.
C6_Isolation ==
    /\ [](\A i \in Inspectors : \A k \in 1..Len(log[i]) :
             /\ log[i][k].signal.index \in EmittableSignals(objType[target(i)])
             /\ log[i][k].signal =
                    MetaMethod(objType[target(i)], log[i][k].signal.index)
             /\ Shown(log[i])[k] \in Range(emitted[target(i)]))
    /\ [][\A o \in Objects :
             (emitted'[o] # emitted[o] \/ (pending # << >> /\ Head(pending).sender = {o})) =>
                \A j \in Inspectors :
                   target(j) # o =>
                      /\ log'[j] = log[j]
                      /\ m_signalSpies'[j] = m_signalSpies[j]]_vars

C6_Witness ==
    /\ \A i \in Inspectors : Len(log[i]) = 1 /\ Len(emitted[target(i)]) = 1
    /\ objType[1] = objType[2]
    /\ log[1][1].signal.metaObject # objType[1]
    /\ log[1][1].signal.index = log[2][1].signal.index
    /\ log[1][1].parameters # log[2][1].parameters

\* C7: the log is empty when construction completes, and in every step of
\* the inspector's lifetime the previous log is a prefix of the next, whatever
\* a caller of the public interface does.
C7_AppendOnly ==
    /\ \A i \in Inspectors : log[i] = << >>
    /\ [][\A i \in Inspectors : alive'[i] => IsPrefix(log[i], log'[i])]_vars

\* A step that is a caller's call of a mutator of the public QList base.
CallerMutates ==
    \/ ListClearAny
    \/ ListRemoveAtAny
    \/ ListAppendAny
    \/ ListPrependAny
    \/ ListInsertAny
    \/ ListReplaceAny
    \/ ListMoveAny
    \/ ListSwapAny
    \/ ListAssignAny

\* What the code does keep of C7: the log starts empty, and during the
\* inspector's lifetime every step in which the previous log is not a prefix
\* of the next is a caller's call of a mutator of the public QList base;
\* emissions and runs of the slot only extend the log, and only a run of the
\* slot or a caller adds an entry.  Destruction releases the list.
C7_OnlyCallersRemove ==
    /\ \A i \in Inspectors : log[i] = << >>
    /\ [][\/ /\ callerCalls' = callerCalls
             /\ \A i \in Inspectors : alive'[i] => IsPrefix(log[i], log'[i])
             /\ \A i \in Inspectors : ~alive'[i] => log'[i] = << >>
             /\ (\E i \in Inspectors : alive'[i] /\ log'[i] # log[i]) => SlotRuns
          \/ CallerMutates]_vars

C7_Witness ==
    \E i \in Inspectors :
        /\ Len(log[i]) = 1
        /\ Len(emitted[target(i)]) = 2
        /\ includeParentClassSignals[i]
        /\ alive[i]
        /\ pending = << >>
        /\ Shown(log[i]) = << emitted[target(i)][2] >>
        /\ emitted[target(i)][1] # emitted[target(i)][2]

\* C8: a run of the slot caused by the emission of a signal that has a spy in
\* m_signalSpies does not take the unexpected-signal path, for either policy.
C8_NoUnexpectedForDiscovered ==
    [][(/\ pending # << >>
        /\ Head(pending).signalIndex \in DOMAIN m_signalSpies[Head(pending).receiver])
          => lastRun'[Head(pending).receiver].path # "unexpected"]_vars

\* C9: a run of the slot that takes the unexpected-signal path returns
\* normally and changes neither a log, nor a spy's record, nor the keys of the
\* table, nor a connection.
C9_UnexpectedChangesNothing ==
    [][(/\ pending # << >>
        /\ pending' = Tail(pending)
        /\ lastRun'[Head(pending).receiver].path = "unexpected")
          => /\ ~crashed'
             /\ log' = log
             /\ m_signalSpies' = m_signalSpies
             /\ connections' = connections]_vars

C9_Witness ==
    \E i \in Inspectors :
        /\ lastRun[i].path = "unexpected"
        /\ pending = << >>
        /\ alive[i]
        /\ \E k \in DOMAIN m_signalSpies[i] : Len(m_signalSpies[i][k]) > 0

\* C10: once an inspector is destroyed it has no spy and no connection, no
\* run of its slot is pending or happens, and its log does not change, whatever
\* the target emits later.
C10_NothingAfterDestruction ==
    [][\A i \in Inspectors :
          ~alive'[i] =>
             /\ m_signalSpies'[i] = EmptyMap
             /\ connections'[i] = << >>
             /\ \A k \in 1..Len(pending') : pending'[k].receiver # i
             /\ ~alive[i] => /\ log'[i] = log[i]
                             /\ lastRun'[i] = lastRun[i]]_vars

C10_Witness ==
    \E i \in Inspectors :
        /\ ~alive[i]
        /\ includeParentClassSignals[i]
        /\ pending = << >>
        /\ log[i] = << >>
        /\ Len(emitted[target(i)]) = 2
        /\ lastRun[i].path = "recorded"
        /\ lastRun[i].fired = emitted[target(i)][1].index
        /\ lastRun[i].fired # emitted[target(i)][2].index

InvokeDirectAny == \E i \in Inspectors : InvokeDirect(i)

\* Synchronous dispatch, and the slot may also be called without a signal.
NextDirect == Next \/ InvokeDirectAny

SpecDirect == Init /\ [][NextDirect]_vars

\* C11: a run of the slot with no sender ends in the fatal state; it appends
\* no entry and clears no spy, and it is not a normal run of the slot.
C11_NoSenderIsFatal ==
    [][(/\ pending # << >>
        /\ pending' = Tail(pending)
        /\ Head(pending).sender = {})
          => /\ crashed'
             /\ log' = log
             /\ m_signalSpies' = m_signalSpies
             /\ lastRun'[Head(pending).receiver].path \in {"fatal", "nullcall"}]_vars

C11_Witness ==
    \E i \in Inspectors :
        /\ crashed
        /\ lastRun[i].path = "fatal"
        /\ lastRun[i].fired = 0 - 1
        /\ Len(log[i]) = 1
        /\ \E j \in Inspectors :
              \E k \in DOMAIN m_signalSpies[j] : Len(m_signalSpies[j][k]) > 0

\* C12: under synchronous dispatch, when a run of the slot starts, exactly one
\* spy of the inspector holds a record, it holds exactly one, and it is the
\* spy of the signal that fired; for either inclusion policy.
C12_OnePendingAtStart ==
    (pending # << >> /\ ~crashed) =>
        LET inv == Head(pending)
        IN  /\ PendingSpies(m_signalSpies[inv.receiver]) = {inv.signalIndex}
            /\ Len(m_signalSpies[inv.receiver][inv.signalIndex]) = 1

\* The objects that emit from a thread other than the inspectors'.  Init gives
\* this object every class and its inspector either flag, and the inspector
\* of another object receives none of its emissions.
Emitters == {1}

EmitQueuedAny ==
    \E o \in Emitters : \E signalIndex \in EmittableSignals(objType[o]) :
        \E args \in ArgLists(method(objType[o], signalIndex).arity) :
            EmitQueued(o, signalIndex, args)

EmitRacingAny ==
    \E o \in Emitters : \E signalIndex \in EmittableSignals(objType[o]) :
        \E args \in ArgLists(method(objType[o], signalIndex).arity) :
            EmitRacing(o, signalIndex, args)

\* Queued dispatch: the objects emit in another thread, so emissions overtake
\* the runs of the slot and fall inside them.
NextQueued ==
    EmitQueuedAny \/ EmitRacingAny \/ SlotEnter \/ SlotLoop \/ SlotRead \/ SlotClear

SpecQueued == Init /\ [][NextQueued]_vars

\* C13: when the slot runs while several spies hold a record, it appends one
\* entry naming the pending signal of lowest method index and clears the spy
\* of that signal only.
C13_LowestPendingSelected ==
    [][\A i \in Inspectors :
          (/\ SlotRuns
           /\ Head(pending).receiver = i
           /\ Cardinality(PendingSpies(m_signalSpies[i])) >= 2)
             => LET k == Min(PendingSpies(m_signalSpies[i]))
                IN  /\ Len(log'[i]) = Len(log[i]) + 1
                    /\ Last(log'[i]).signal.index = k
                    /\ m_signalSpies'[i] = [m_signalSpies[i] EXCEPT ![k] = << >>]]_vars

\* A step of the run of the slot in progress on inspector i.
RunStep(i) ==
    /\ RunningOn(i)
    /\ emitted' = emitted
    /\ run' # run

\* C14: when a run of the slot has stopped at the spy of a signal that holds
\* m >= 2 records, and no other spy holds one, the run appends exactly one
\* entry with the arguments of the oldest record (lines 124-129) and leaves
\* the other m-1 records in the spy for the following runs (line 130).
C14_OldestOnly ==
    [][\A i \in Inspectors : \A k \in DOMAIN m_signalSpies[i] :
          (/\ RunStep(i)
           /\ run.stage \in {"read", "clear"}
           /\ run.signalSpy = {k}
           /\ run.signalIndex = k
           /\ PendingSpies(m_signalSpies[i]) = {k}
           /\ Len(m_signalSpies[i][k]) >= 2)
             => IF run.stage = "read"
                THEN /\ Len(log'[i]) = Len(log[i]) + 1
                     /\ IsPrefix(log[i], log'[i])
                     /\ Last(log'[i]).signal.index = k
                     /\ Last(log'[i]).parameters = m_signalSpies[i][k][1]
                     /\ m_signalSpies'[i] = m_signalSpies[i]
                ELSE /\ log'[i] = log[i]
                     /\ m_signalSpies'[i] =
                           [m_signalSpies[i] EXCEPT ![k] = Tail(@)]]_vars

\* C15: under queued dispatch the disambiguation is unsound.  Whenever a
\* signal fired, with no run of the slot in progress, while the firing next
\* to be logged was not that of the first pending spy in method order, then
\* once every posted run of the slot has run, the log of an inspector that
\* records all signals is not the sequence of the emissions; and such a
\* state is reached (C15_Witness).
C15_BacklogBreaksLog ==
    \A i \in Inspectors :
        (/\ pending = << >>
         /\ alive[i]
         /\ includeParentClassSignals[i]
         /\ backlog[i])
           => Shown(log[i]) # emitted[target(i)]

C15_Witness ==
    \E i \in Inspectors :
        /\ pending = << >>
        /\ ~crashed
        /\ includeParentClassSignals[i]
        /\ backlog[i]
        /\ Len(emitted[target(i)]) = 2
        /\ Shown(log[i]) = << emitted[target(i)][2], emitted[target(i)][1] >>
        /\ emitted[target(i)][1].index # emitted[target(i)][2].index

\* C16: no step of a run of the slot, on whichever path, adds or removes a
\* key of m_signalSpies; a step changes at most one spy, and only by clearing
\* it.
C16_TableKeysFixed ==
    [][\A i \in Inspectors :
          RunStep(i) =>
             /\ DOMAIN m_signalSpies'[i] = DOMAIN m_signalSpies[i]
             /\ Cardinality({ k \in DOMAIN m_signalSpies[i] :
                                 m_signalSpies'[i][k] # m_signalSpies[i][k] }) <= 1
             /\ \A k \in DOMAIN m_signalSpies[i] :
                   m_signalSpies'[i][k] \in {m_signalSpies[i][k], << >>}]_vars

C16_Witness ==
    \E i \in Inspectors :
        /\ run = Idle
        /\ lastRun[i].path = "recorded"
        /\ PendingSpies(m_signalSpies[i]) # {}
        /\ log[i] # << >>
        /\ DOMAIN m_signalSpies[i] =
              SignalsInRange(objType[target(i)], includeParentClassSignals[i])

\* C17: whenever a run of the slot reaches the read of the arguments, its
\* loop has stopped at a spy that exists and holds a record, so at(0) reads
\* an existing element; whatever the dispatch timing.
C17_ArgumentReadHasRecord ==
    (run.stage = "read" /\ pending # << >> /\ ~crashed) =>
        /\ run.signalSpy = {run.signalIndex}
        /\ run.signalIndex \in DOMAIN m_signalSpies[Head(pending).receiver]
        /\ Len(m_signalSpies[Head(pending).receiver][run.signalIndex]) >= 1

\* --------------------------------------------------- nested emission
\* Another slot (a listener) is connected to signal a of object o and emits
\* signal b of o when it runs.  Connections of one signal are served in the
\* order they were made: the listener runs before the inspector's spy and slot
\* when it was connected before the inspector was constructed, after them
\* otherwise.  calls holds the deliveries still to make, the next one first.
SpyCall(o, signalIndex, args) ==
    [kind |-> "spy", object |-> o, signalIndex |-> signalIndex, args |-> args]

SlotCall(o, signalIndex, args) ==
    [kind |-> "slot", object |-> o, signalIndex |-> signalIndex, args |-> args]

ListenerCall(o, signalIndex, args) ==
    [kind |-> "listener", object |-> o, signalIndex |-> signalIndex, args |-> args]

\* The deliveries of one emission to the inspector: spy (line 89), then slot
\* (line 90).
InspectorCalls(o, signalIndex, args) ==
    << SpyCall(o, signalIndex, args), SlotCall(o, signalIndex, args) >>

\* o emits a; its listener will emit b.
EmitOuter(o, a, argsA, b, argsB, listenerFirst) ==
    /\ ~crashed
    /\ pending = << >>
    /\ calls = << >>
    /\ clock + 2 <= MaxEmissions
    /\ a \in EmittableSignals(objType[o])
    /\ b \in EmittableSignals(objType[o])
    /\ a # b
    /\ argsA \in ArgLists(method(objType[o], a).arity)
    /\ argsB \in ArgLists(method(objType[o], b).arity)
    /\ emitted' = [emitted EXCEPT ![o] = Append(@, [index |-> a, args |-> argsA])]
    /\ clock' = clock + 1
    /\ calls' = IF listenerFirst
                THEN << ListenerCall(o, b, argsB) >> \o InspectorCalls(o, a, argsA)
                ELSE InspectorCalls(o, a, argsA) \o << ListenerCall(o, b, argsB) >>
    /\ UNCHANGED << objType, includeParentClassSignals, m_signalSpies, connections,
                    log, alive, pending, lastRun, crashed, backlog, run, callerCalls >>

\* The listener runs and emits its signal: the deliveries of that emission
\* come before what is left of the outer one.
RunListener ==
    /\ ~crashed
    /\ pending = << >>
    /\ calls # << >>
    /\ Head(calls).kind = "listener"
    /\ emitted' = [emitted EXCEPT ![Head(calls).object] =
                      Append(@, [index |-> Head(calls).signalIndex,
                                 args |-> Head(calls).args])]
    /\ clock' = clock + 1
    /\ calls' = InspectorCalls(Head(calls).object, Head(calls).signalIndex,
                               Head(calls).args) \o Tail(calls)
    /\ UNCHANGED << objType, includeParentClassSignals, m_signalSpies, connections,
                    log, alive, pending, lastRun, crashed, backlog, run, callerCalls >>

\* The spies of the signal record the emission.
RunSpy ==
    /\ ~crashed
    /\ pending = << >>
    /\ calls # << >>
    /\ Head(calls).kind = "spy"
    /\ m_signalSpies' = [i \in Inspectors |->
           IF i \in SpyReceivers(Head(calls).object, Head(calls).signalIndex)
           THEN SpyRecord(m_signalSpies[i], Head(calls).signalIndex, Head(calls).args)
           ELSE m_signalSpies[i]]
    /\ backlog' = Backlogged(Head(calls).object, Head(calls).signalIndex,
                             emitted[Head(calls).object])
    /\ calls' = Tail(calls)
    /\ UNCHANGED << objType, includeParentClassSignals, connections, log, alive,
                    pending, emitted, lastRun, clock, crashed, run, callerCalls >>

\* The slot of the inspector is called; SignalEmitted is its run.
RunSlot ==
    /\ ~crashed
    /\ pending = << >>
    /\ calls # << >>
    /\ Head(calls).kind = "slot"
    /\ pending' = Invocations(Head(calls).object, Head(calls).signalIndex)
    /\ calls' = Tail(calls)
    /\ UNCHANGED << objType, includeParentClassSignals, m_signalSpies, connections,
                    log, alive, emitted, lastRun, clock, crashed, backlog,
                    run, callerCalls >>

EmitOuterAny ==
    \E o \in Objects : \E a \in EmittableSignals(objType[o]) :
        \E b \in EmittableSignals(objType[o]) :
            \E argsA \in ArgLists(method(objType[o], a).arity) :
                \E argsB \in ArgLists(method(objType[o], b).arity) :
                    \E listenerFirst \in BOOLEAN :
                        EmitOuter(o, a, argsA, b, argsB, listenerFirst)

\* Synchronous dispatch with a listener that emits.
NextNested ==
    EmitOuterAny \/ RunListener \/ RunSpy \/ RunSlot \/ SignalEmitted

SpecNested == Init /\ [][NextNested]_vars

Count(seq, v) == Cardinality({ k \in 1..Len(seq) : seq[k] = v })

\* C18: once an outer emission with its nested emission has been delivered,
\* every emission of a discovered signal has exactly one entry in the log with
\* its own signal and arguments (and the log has no other entry), and no spy
\* holds a record.
C18_NestedEmissionsRecorded ==
    \A i \in Inspectors :
        (Quiet(i) /\ calls = << >>) =>
            LET seen == SelectSeq(emitted[target(i)],
                                  LAMBDA e : e.index \in DOMAIN m_signalSpies[i])
            IN  /\ Len(log[i]) = Len(seen)
                /\ \A k \in 1..Len(seen) :
                      Count(Shown(log[i]), seen[k]) = Count(seen, seen[k])
                /\ PendingSpies(m_signalSpies[i]) = {}

====
